---- MODULE Spec2Model ----
(***************************************************************************)
(* The number-reservation lifecycle of the bot: NumberManager              *)
(* (src/services/number_manager.py) over the numbers and number_requests   *)
(* tables (src/database.py), driven by the callback handlers of            *)
(* src/handlers/number_handlers.py.                                        *)
(*                                                                         *)
(* Every handler invocation is a task.  A task runs without interruption   *)
(* up to its next database statement; each statement (Database.execute,    *)
(* Database.fetchone) is one atomic step on the single shared connection,  *)
(* and statements of different tasks interleave freely.                    *)
(***************************************************************************)
EXTENDS Integers, Sequences, FiniteSets

\* ---------------------------------------------------------------- bounds
MaxUsers    == 2   \* users 1..MaxUsers
MaxNumbers  == 1   \* rows of the numbers table, ids 1..MaxNumbers
MaxTasks    == 2   \* handler invocations in flight at once
MaxRequests == 2   \* rows ever inserted into number_requests
MaxTicks    == 1   \* how many times the clock advances
MaxCatalog  == 3   \* rows of the numbers table when it is listed
MaxCountries == 2  \* rows of the countries table, ids 1..MaxCountries
MaxPage     == 3   \* the pages asked for, 1..MaxPage
MaxLimit    == 2   \* the page sizes asked for, 1..MaxLimit
MaxSearched == 2   \* rows of the numbers table when it is searched
MaxText     == 2   \* characters in a number and in a search pattern
MaxHalfDays == 2   \* how many half days pass while points are spent
MaxAds      == 2   \* rows of the ads table, ids 1..MaxAds

\* ------------------------------------------------------ program constants
request_expiry_minutes == 5
daily_bonus_points == 10
pro_points_cost == 100
pro_days_duration == 30
invite_points == 5
NUMBERS_PER_PAGE == 10

Users     == 1..MaxUsers
Numbers   == 1..MaxNumbers
\* the ids the callbacks carry
NumberIds == 1..MaxNumbers
\* the ids a request callback may carry: those, and one id (0) of no row
RequestIds == 0..MaxNumbers
Tasks     == 1..MaxTasks
\* a value of str(random.randint(100000, 999999))
Codes     == {"100000"}
NULL      == "NULL"

VARIABLES
    numbers,          \* table numbers: id -> row
    number_requests,  \* table number_requests: sequence of rows, row id = index
    now,              \* datetime.now(), in minutes
    uuids,            \* how many uuid4() values have been drawn
    tasks,            \* the handler invocations
    users,            \* table users: id -> row
    pro_codes,        \* table pro_codes: code -> row
    ad_views          \* table ad_views: sequence of rows, row id = index

vars == <<numbers, number_requests, now, uuids, tasks, users, pro_codes,
          ad_views>>

\* ------------------------------------------------------------ SQL helpers

\* SELECT id, number, platform FROM numbers WHERE id = ? AND is_active = 1
\* (SelectActiveNumberAnyFlag: the same without the is_active condition)
SelectActiveNumberAnyFlag(n) ==
    n \in Numbers

SelectActiveNumber(n) ==
    n \in Numbers /\ numbers[n].is_active = 1

\* the rows WHERE user_id = ? AND number_id = ? AND status = 'PENDING'
PendingOf(reqs, u, n) ==
    {i \in DOMAIN reqs : /\ reqs[i].user_id = u
                         /\ reqs[i].number_id = n
                         /\ reqs[i].status = "PENDING"}

\* ... ORDER BY requested_at DESC LIMIT 1: the rows the query may return
\* (rows of equal requested_at come in an order SQLite does not fix)
SelectPendingRequest(u, n) ==
    {i \in PendingOf(number_requests, u, n) :
        \A j \in PendingOf(number_requests, u, n) :
            number_requests[j].requested_at <= number_requests[i].requested_at}

\* INSERT INTO number_requests (user_id, number_id, api_request_id, status, expires_at)
\* (InsertRequestNoDuration: the same with the time of the insert as expires_at)
InsertRequestNoDuration(reqs, u, n, api, exp, at) ==
    Append(reqs, [user_id |-> u, number_id |-> n, api_request_id |-> api,
                  status |-> "PENDING", expires_at |-> at, code |-> NULL,
                  requested_at |-> at])

InsertRequest(reqs, u, n, api, exp, at) ==
    Append(reqs, [user_id |-> u, number_id |-> n, api_request_id |-> api,
                  status |-> "PENDING", expires_at |-> exp, code |-> NULL,
                  requested_at |-> at])

\* UPDATE number_requests SET status = ?, code = ?
\*   WHERE user_id = ? AND number_id = ? AND status = 'PENDING'
\* (UpdateRequestStatusAnyStatus: the same without the status condition;
\* UpdateRequestStatusNoCode: the same without code in the SET list;
\* UpdateRequestStatusAnyUser: the same without the user_id condition)
UpdateRequestStatusNoCode(reqs, u, n, status, code) ==
    [i \in DOMAIN reqs |->
        IF reqs[i].user_id = u /\ reqs[i].number_id = n
           /\ reqs[i].status = "PENDING"
        THEN [reqs[i] EXCEPT !.status = status]
        ELSE reqs[i]]

UpdateRequestStatusAnyUser(reqs, u, n, status, code) ==
    [i \in DOMAIN reqs |->
        IF reqs[i].number_id = n /\ reqs[i].status = "PENDING"
        THEN [reqs[i] EXCEPT !.status = status, !.code = code]
        ELSE reqs[i]]

UpdateRequestStatusAnyStatus(reqs, u, n, status, code) ==
    [i \in DOMAIN reqs |->
        IF reqs[i].user_id = u /\ reqs[i].number_id = n
        THEN [reqs[i] EXCEPT !.status = status, !.code = code]
        ELSE reqs[i]]

UpdateRequestStatus(reqs, u, n, status, code) ==
    [i \in DOMAIN reqs |->
        IF i \in PendingOf(reqs, u, n)
        THEN [reqs[i] EXCEPT !.status = status, !.code = code]
        ELSE reqs[i]]

\* UPDATE numbers SET is_active = 0, last_used = ?, last_used_by = ? WHERE id = ?
DeactivateNumber(nums, n, at, u) ==
    [m \in DOMAIN nums |->
        IF m = n
        THEN [nums[m] EXCEPT !.is_active = 0, !.last_used = at, !.last_used_by = u]
        ELSE nums[m]]

\* UPDATE numbers SET is_active = 1 WHERE id = ?
ReactivateNumberNoRow(nums, n) ==
    nums

ReactivateNumber(nums, n) ==
    [m \in DOMAIN nums |->
        IF m = n THEN [nums[m] EXCEPT !.is_active = 1] ELSE nums[m]]

\* UPDATE numbers SET times_used = times_used + 1 WHERE id = ?
IncrementUsage(nums, n) ==
    [m \in DOMAIN nums |->
        IF m = n THEN [nums[m] EXCEPT !.times_used = @ + 1] ELSE nums[m]]

\* ------------------------------------------------------------------ tasks

\* the number and platform columns of number n, set when the admin adds it
\* and never changed afterwards
DisplayOf(n) == [number |-> n, platform |-> "Telegram"]

\* a row of users as INSERT OR IGNORE INTO users leaves it: the column defaults
\* (a column that may be NULL holds the set of its values: none, or one)
NewUser ==
    [points |-> 0, banned |-> 0, is_pro |-> 0, pro_expiry |-> {},
     last_daily_bonus |-> {}]

\* no row read
NoData == [number |-> 0, platform |-> "none"]

\* A task between invocations.  Fields: the handler's arguments (op, user_id,
\* number_id), the locals of the manager method it runs (number_data,
\* api_request_id, expires_at, status, code, and request: the id of the row
\* check_for_code read), what the method returned (result) and what the
\* handler showed the user (reply).  updated, overlap and oracle record
\* history: the rows the task's UPDATE number_requests changed, the initiate
\* calls on the same number that had read it available and not yet flipped it
\* when this one read it, and whether the oracle was asked.
IdleTask ==
    [pc |-> "idle", op |-> "none", user_id |-> 0, number_id |-> 0,
     number_data |-> NoData, api_request_id |-> 0, expires_at |-> 0, status |-> "none", code |-> NULL,
     request |-> 0, result |-> "None", reply |-> "none",
     updated |-> {}, overlap |-> {}, oracle |-> FALSE]

\* a new invocation takes the first slot that runs none (the slots are
\* interchangeable); a slot keeps its last invocation's outcome until then
Free(t) ==
    /\ tasks[t].pc \in {"idle", "done"}
    /\ \A s \in Tasks : s < t => tasks[s].pc \notin {"idle", "done"}

\* a handler invoked by user u on number n
Call(op, u, n) ==
    [IdleTask EXCEPT !.op = op, !.user_id = u, !.number_id = n]

\* the task as it is left when its handler has answered: what was asked, what
\* the manager returned, what the user was shown (and, of the history, overlap
\* and oracle)
Done(r, result, reply) ==
    [IdleTask EXCEPT !.pc = "done", !.op = r.op, !.user_id = r.user_id,
                     !.number_id = r.number_id, !.overlap = r.overlap,
                     !.oracle = r.oracle,
                     !.result = result, !.reply = reply]

\* the task table with t started afresh as r, and t's previous invocation
\* forgotten by the others
Started(t, r) ==
    [s \in Tasks |->
        IF s = t THEN r
        ELSE [tasks[s] EXCEPT !.overlap = @ \ {t}]]

Init ==
    /\ numbers = [n \in Numbers |->
                    [number |-> DisplayOf(n).number,
                     platform |-> DisplayOf(n).platform,
                     country_id |-> 1, is_premium |-> 1, added_at |-> 0,
                     is_active |-> 1, times_used |-> 0,
                     last_used |-> 0, last_used_by |-> 0]]
    /\ users = [u \in Users |-> NewUser]
    /\ number_requests = <<>>
    /\ now = 0
    /\ uuids = 0
    /\ pro_codes = <<>>
    /\ ad_views = <<>>
    /\ tasks = [t \in Tasks |-> IdleTask]

\* the clock advances in steps of ClockStep minutes, the least time after
\* which a lease just created is past its expiry
ClockStep == request_expiry_minutes + 1

\* time passes
Tick ==
    /\ now < MaxTicks * ClockStep
    /\ now' = now + ClockStep
    /\ UNCHANGED <<pro_codes, ad_views, users, numbers, number_requests, uuids, tasks>>

\* ------------------------------------------------ initialize_number_request

\* the initiate calls on n that have read n available and not yet flipped it
InFlightInitiates(n) ==
    {s \in Tasks : /\ tasks[s].op = "initiate"
                   /\ tasks[s].number_id = n
                   /\ tasks[s].pc \in {"I_insert", "I_update"}}

\* number_request_handler calls initialize_number_request; the SELECT finds
\* the number active; the method draws the uuid and computes expires_at
InitiateAvailable(t, u, n) ==
    /\ Free(t)
    /\ SelectActiveNumber(n)
    /\ uuids < MaxRequests
    /\ uuids' = uuids + 1
    /\ tasks' = Started(t, [Call("initiate", u, n) EXCEPT
                    !.pc = "I_insert",
                    !.number_data = [number |-> numbers[n].number,
                                     platform |-> numbers[n].platform],
                    !.api_request_id = uuids + 1,
                    !.expires_at = now + request_expiry_minutes,
                    !.overlap = InFlightInitiates(n) \ {t}])
    /\ UNCHANGED <<pro_codes, ad_views, users, numbers, number_requests, now>>

\* the SELECT finds no active number: return None, and the handler answers
\* that the number is not available
InitiateUnavailable(t, u, n) ==
    /\ Free(t)
    /\ ~SelectActiveNumber(n)
    /\ tasks' = Started(t, Done(Call("initiate", u, n), "None", "unavailable"))
    /\ UNCHANGED <<pro_codes, ad_views, users, numbers, number_requests, now, uuids>>

\* INSERT INTO number_requests ... 'PENDING'
InitiateInsert(t) ==
    /\ tasks[t].pc = "I_insert"
    /\ number_requests' = InsertRequest(number_requests, tasks[t].user_id,
                              tasks[t].number_id, tasks[t].api_request_id,
                              tasks[t].expires_at, now)
    /\ tasks' = [tasks EXCEPT ![t].pc = "I_update"]
    /\ UNCHANGED <<pro_codes, ad_views, users, numbers, now, uuids>>

\* UPDATE numbers SET is_active = 0, last_used = now, last_used_by = user
InitiateUpdate(t) ==
    /\ tasks[t].pc = "I_update"
    /\ numbers' = DeactivateNumber(numbers, tasks[t].number_id, now,
                                   tasks[t].user_id)
    /\ tasks' = [tasks EXCEPT ![t].pc = "I_log"]
    /\ UNCHANGED <<pro_codes, ad_views, users, number_requests, now, uuids>>

\* the request data initialize_number_request returns
LeaseOf(r) ==
    [number_id |-> r.number_id, number |-> r.number_data.number,
     platform |-> r.number_data.platform,
     api_request_id |-> r.api_request_id, expires_at |-> r.expires_at]

\* log_action(NUMBER_REQUEST_INITIATED), return the request data; the handler
\* shows the number and its expiry.  The logs table is only ever appended to
\* and no operation reads it.
InitiateLog(t) ==
    /\ tasks[t].pc = "I_log"
    /\ tasks' = [tasks EXCEPT ![t] = Done(tasks[t], "lease", "reserved")]
    /\ UNCHANGED <<pro_codes, ad_views, users, numbers, number_requests, now, uuids>>

\* ------------------------------------------------------------ check_for_code

\* _simulate_api_check: a code, or None
OracleAnswers == Codes \cup {NULL}

\* number_check_code_handler calls check_for_code and no PENDING request of
\* (user, number) exists: return None, the handler answers "not ready"
CheckNoRequest(t, u, n) ==
    /\ Free(t)
    /\ SelectPendingRequest(u, n) = {}
    /\ tasks' = Started(t, Done(Call("poll", u, n), "None", "not_ready"))
    /\ UNCHANGED <<pro_codes, ad_views, users, numbers, number_requests, now, uuids>>

\* the request read has expires_at < now: go on to finalize it EXPIRED
CheckExpired(t, u, n) ==
    /\ Free(t)
    /\ \E i \in SelectPendingRequest(u, n) :
        /\ number_requests[i].expires_at < now
        /\ tasks' = Started(t, [Call("poll", u, n) EXCEPT
                        !.pc = "F_request", !.request = i,
                        !.status = "EXPIRED", !.code = NULL])
    /\ UNCHANGED <<pro_codes, ad_views, users, numbers, number_requests, now, uuids>>

\* check_for_code once the oracle has answered c for request i: with a code go
\* on to finalize SUCCESS, without one return None and the handler answers
\* "not ready"
AfterOracleExpireOnMiss(u, n, i, c) ==
    [Call("poll", u, n) EXCEPT
        !.pc = "F_request", !.request = i, !.oracle = TRUE, !.code = c,
        !.status = IF c # NULL THEN "SUCCESS" ELSE "EXPIRED"]

AfterOracle(u, n, i, c) ==
    IF c # NULL
    THEN [Call("poll", u, n) EXCEPT
              !.pc = "F_request", !.request = i,
              !.status = "SUCCESS", !.code = c, !.oracle = TRUE]
    ELSE Done([Call("poll", u, n) EXCEPT !.oracle = TRUE],
              "None", "not_ready")

\* the request read is not expired: ask the oracle
CheckOracle(t, u, n, c) ==
    /\ Free(t)
    /\ \E i \in SelectPendingRequest(u, n) :
        /\ ~(number_requests[i].expires_at < now)
        /\ tasks' = Started(t, AfterOracle(u, n, i, c))
    /\ UNCHANGED <<pro_codes, ad_views, users, numbers, number_requests, now, uuids>>

\* --------------------------------------------------- finalize_number_request

\* number_cancel_request_handler calls finalize_number_request(CANCELLED),
\* whose first statement is the UPDATE of number_requests
CancelRequest(t, u, n) ==
    /\ Free(t)
    /\ number_requests' = UpdateRequestStatus(number_requests, u, n,
                                              "CANCELLED", NULL)
    /\ tasks' = Started(t, [Call("cancel", u, n) EXCEPT
                    !.pc = "F_number",
                    !.status = "CANCELLED", !.code = NULL,
                    !.updated = PendingOf(number_requests, u, n)])
    /\ UNCHANGED <<pro_codes, ad_views, users, numbers, now, uuids>>

\* the UPDATE of number_requests, reached from check_for_code
FinalizeRequest(t) ==
    /\ tasks[t].pc = "F_request"
    /\ number_requests' = UpdateRequestStatus(number_requests,
                              tasks[t].user_id, tasks[t].number_id,
                              tasks[t].status, tasks[t].code)
    /\ tasks' = [tasks EXCEPT
                    ![t].pc = "F_number",
                    ![t].updated = PendingOf(number_requests,
                                       tasks[t].user_id, tasks[t].number_id)]
    /\ UNCHANGED <<pro_codes, ad_views, users, numbers, now, uuids>>

\* the UPDATE of numbers: reactivate on EXPIRED or CANCELLED, count on SUCCESS
FinalizeNumber(t) ==
    /\ tasks[t].pc = "F_number"
    /\ numbers' = IF tasks[t].status \in {"EXPIRED", "CANCELLED"}
                  THEN ReactivateNumber(numbers, tasks[t].number_id)
                  ELSE IncrementUsage(numbers, tasks[t].number_id)
    /\ tasks' = [tasks EXCEPT ![t].pc = "F_log"]
    /\ UNCHANGED <<pro_codes, ad_views, users, number_requests, now, uuids>>

\* what check_for_code returns after finalize, by the status it finalized with
ResultOf(r) ==
    CASE r.op = "cancel"        -> "None"
      [] r.status = "EXPIRED"   -> "EXPIRED"
      [] OTHER                  -> r.code

\* what the handler then does: the cancel handler always reports the request
\* cancelled; the check handler shows the expiry, or, with a code, calls
\* safe_edit_text, a name the module never defines
ReplyOf(r) ==
    CASE r.op = "cancel"        -> "cancelled"
      [] r.status = "EXPIRED"   -> "expired"
      [] OTHER                  -> "NameError"

\* log_action(NUMBER_REQUEST_FAILED / NUMBER_REQUEST_SUCCESS), return, and the
\* handler's answer
FinalizeLog(t) ==
    /\ tasks[t].pc = "F_log"
    /\ tasks' = [tasks EXCEPT
                    ![t] = Done(tasks[t], ResultOf(tasks[t]), ReplyOf(tasks[t]))]
    /\ UNCHANGED <<pro_codes, ad_views, users, numbers, number_requests, now, uuids>>

\* --------------------------------------------------------------------- Next

Next ==
    \/ \E t \in Tasks, u \in Users, n \in NumberIds : InitiateAvailable(t, u, n)
    \/ \E t \in Tasks, u \in Users, n \in RequestIds : InitiateUnavailable(t, u, n)
    \/ \E t \in Tasks : InitiateInsert(t)
    \/ \E t \in Tasks : InitiateUpdate(t)
    \/ \E t \in Tasks : InitiateLog(t)
    \/ \E t \in Tasks, u \in Users, n \in NumberIds : CheckNoRequest(t, u, n)
    \/ \E t \in Tasks, u \in Users, n \in NumberIds : CheckExpired(t, u, n)
    \/ \E t \in Tasks, u \in Users, n \in NumberIds, c \in OracleAnswers :
            CheckOracle(t, u, n, c)
    \/ \E t \in Tasks, u \in Users, n \in NumberIds : CancelRequest(t, u, n)
    \/ \E t \in Tasks : FinalizeRequest(t)
    \/ \E t \in Tasks : FinalizeNumber(t)
    \/ \E t \in Tasks : FinalizeLog(t)
    \/ Tick

Spec == Init /\ [][Next]_vars

\* ------------------------------------------------------------- vocabulary

Terminal == {"SUCCESS", "EXPIRED", "CANCELLED"}

\* the PENDING leases on number n, of any user
PendingOn(n) ==
    {i \in DOMAIN number_requests : /\ number_requests[i].number_id = n
                                    /\ number_requests[i].status = "PENDING"}

SuccessOn(n) ==
    {i \in DOMAIN number_requests : /\ number_requests[i].number_id = n
                                    /\ number_requests[i].status = "SUCCESS"}

\* this step is task t being invoked as handler op by user u on number n (a
\* step that only drops a restarted task from t's overlap is another task's)
Invoked(t, op, u, n) ==
    /\ tasks[t].pc \in {"idle", "done"}
    /\ tasks'[t] # [tasks[t] EXCEPT !.overlap = tasks'[t].overlap]
    /\ tasks'[t].op = op
    /\ tasks'[t].user_id = u
    /\ tasks'[t].number_id = n

\* this step is task t running the statement at pc from and moving on to pc to
Stepped(t, from, to) ==
    /\ tasks[t].pc = from
    /\ tasks'[t].pc = to

\* --------------------------------------------------------------- scheduling

\* the next statement of the handler that task t runs
Continue(t) ==
    \/ InitiateInsert(t)
    \/ InitiateUpdate(t)
    \/ InitiateLog(t)
    \/ FinalizeRequest(t)
    \/ FinalizeNumber(t)
    \/ FinalizeLog(t)

\* The event loop resumes every handler whose awaited statement has completed,
\* and time passes.  Nothing makes a user press a button: the invocations
\* (initiate, poll, cancel) carry no fairness.
SpecLive ==
    /\ Init /\ [][Next]_vars
    /\ \A t \in Tasks : WF_vars(Continue(t))
    /\ WF_vars(Tick)

\* ------------------------------------------------- persistence failures

\* Database.execute logs and re-raises whatever the statement or its commit
\* raised; the statement then has changed nothing.  initialize_number_request
\* catches the exception around its three writes and returns None, which the
\* handler answers like an unavailable number.
InitiateWriteFails(t) ==
    /\ tasks[t].pc \in {"I_insert", "I_update", "I_log"}
    /\ tasks' = [tasks EXCEPT ![t] = Done(tasks[t], "None", "unavailable")]
    /\ UNCHANGED <<pro_codes, ad_views, users, numbers, number_requests, now, uuids>>

\* finalize_number_request, check_for_code and the two handlers catch nothing:
\* the exception of a failed write ends the handler, the user is shown nothing
FinalizeWriteFails(t) ==
    /\ tasks[t].pc \in {"F_request", "F_number", "F_log"}
    /\ tasks' = [tasks EXCEPT ![t] = Done(tasks[t], "raise", "none")]
    /\ UNCHANGED <<pro_codes, ad_views, users, numbers, number_requests, now, uuids>>

\* the same for the first write of a cancel, the UPDATE of number_requests
CancelWriteFails(t, u, n) ==
    /\ Free(t)
    /\ tasks' = Started(t, Done(Call("cancel", u, n), "raise", "none"))
    /\ UNCHANGED <<pro_codes, ad_views, users, numbers, number_requests, now, uuids>>

\* the operations with writes that may fail, at one moment of the clock (no
\* lease expires)
NextFail ==
    \/ \E t \in Tasks, u \in Users, n \in NumberIds : InitiateAvailable(t, u, n)
    \/ \E t \in Tasks, u \in Users, n \in NumberIds : InitiateUnavailable(t, u, n)
    \/ \E t \in Tasks : InitiateInsert(t)
    \/ \E t \in Tasks : InitiateUpdate(t)
    \/ \E t \in Tasks : InitiateLog(t)
    \/ \E t \in Tasks, u \in Users, n \in NumberIds : CheckNoRequest(t, u, n)
    \/ \E t \in Tasks, u \in Users, n \in NumberIds, c \in OracleAnswers :
            CheckOracle(t, u, n, c)
    \/ \E t \in Tasks, u \in Users, n \in NumberIds : CancelRequest(t, u, n)
    \/ \E t \in Tasks : FinalizeRequest(t)
    \/ \E t \in Tasks : FinalizeNumber(t)
    \/ \E t \in Tasks : FinalizeLog(t)
    \/ \E t \in Tasks : InitiateWriteFails(t)
    \/ \E t \in Tasks : FinalizeWriteFails(t)
    \/ \E t \in Tasks, u \in Users, n \in NumberIds : CancelWriteFails(t, u, n)

SpecFail == Init /\ [][NextFail]_vars

\* ------------------------------------------------------------- two codes

\* two values of str(random.randint(100000, 999999))
TwoCodes == {"100000", "999999"}

\* initiate and poll with an oracle that may answer either code, at one moment
\* of the clock
NextCodes ==
    \/ \E t \in Tasks, u \in Users, n \in NumberIds : InitiateAvailable(t, u, n)
    \/ \E t \in Tasks, u \in Users, n \in NumberIds : InitiateUnavailable(t, u, n)
    \/ \E t \in Tasks : InitiateInsert(t)
    \/ \E t \in Tasks : InitiateUpdate(t)
    \/ \E t \in Tasks : InitiateLog(t)
    \/ \E t \in Tasks, u \in Users, n \in NumberIds : CheckNoRequest(t, u, n)
    \/ \E t \in Tasks, u \in Users, n \in NumberIds,
          c \in TwoCodes \cup {NULL} : CheckOracle(t, u, n, c)
    \/ \E t \in Tasks : FinalizeRequest(t)
    \/ \E t \in Tasks : FinalizeNumber(t)
    \/ \E t \in Tasks : FinalizeLog(t)

SpecCodes == Init /\ [][NextCodes]_vars

\* ---------------------------------------------------------------- listing

Countries == 1..MaxCountries

\* is_pro: the user's row says PRO and its pro_expiry is in the future
IsPro(u) ==
    /\ users[u].is_pro = 1
    /\ users[u].pro_expiry # {}
    /\ \A expiry_date \in users[u].pro_expiry : expiry_date > now

\* WHERE country_id = ? AND is_active = 1 [AND is_premium = 0]
\* (ListableAnyTier: the same without the is_premium condition)
ListableAnyTier(nums, c, is_pro) ==
    {n \in DOMAIN nums : nums[n].country_id = c /\ nums[n].is_active = 1}

Listable(nums, c, is_pro) ==
    {n \in DOMAIN nums : /\ nums[n].country_id = c
                         /\ nums[n].is_active = 1
                         /\ (is_pro \/ nums[n].is_premium = 0)}

\* ORDER BY is_premium DESC, added_at DESC: row a comes before row b.  Rows
\* equal in both come in an order SQLite does not fix; tie says whether that
\* is by ascending or by descending rowid.
Before(nums, a, b, tie) ==
    \/ nums[a].is_premium > nums[b].is_premium
    \/ /\ nums[a].is_premium = nums[b].is_premium
       /\ nums[a].added_at > nums[b].added_at
    \/ /\ nums[a].is_premium = nums[b].is_premium
       /\ nums[a].added_at = nums[b].added_at
       /\ IF tie = "asc" THEN a < b ELSE a > b

\* the rows of E in that order
OrderBy(nums, E, tie) ==
    [i \in 1..Cardinality(E) |->
        CHOOSE n \in E :
            Cardinality({m \in E : Before(nums, m, n, tie)}) = i - 1]

\* LIMIT ? OFFSET ?
LimitOffset(q, limit, offset) ==
    IF offset >= Len(q) THEN <<>>
    ELSE SubSeq(q, offset + 1,
                IF offset + limit < Len(q) THEN offset + limit ELSE Len(q))

\* NumberManager.get_numbers_for_country: the ids of the rows returned
get_numbers_for_country(nums, c, is_pro, page, limit, tie) ==
    LimitOffset(OrderBy(nums, Listable(nums, c, is_pro), tie),
                limit, (page - 1) * limit)

\* SELECT COUNT(id) FROM numbers WHERE country_id = ? AND is_active = 1, as
\* fetchone returns it: a dict of the row, keyed by the column's name
SelectCount(nums, c) ==
    [k \in {"COUNT(id)"} |->
        Cardinality({n \in DOMAIN nums : /\ nums[n].country_id = c
                                         /\ nums[n].is_active = 1})]

\* the key that the integer i is in a dict (no column name is one)
IntKey(i) == IF i = 0 THEN "int 0" ELSE "int"

\* NumberManager.get_total_numbers_count: result[0] of that dict, or the
\* KeyError that the subscript raises
get_total_numbers_count(nums, c) ==
    LET result == SelectCount(nums, c)
    IN  IF IntKey(0) \in DOMAIN result
        THEN [raised |-> "none", value |-> result[IntKey(0)]]
        ELSE [raised |-> "KeyError", value |-> 0]

\* a handler or method call that has returned, with its arguments
Returned(op, args, result, reply) ==
    [pc |-> "done", op |-> op, args |-> args, result |-> result,
     reply |-> reply]

\* get_numbers_for_country called with these arguments (the tables being
\* what they are, one call is looked at per behaviour)
ListCall(c, is_pro, page, limit, tie) ==
    /\ tasks[1].pc = "idle"
    /\ tasks' = [tasks EXCEPT ![1] =
          Returned("get_numbers_for_country",
                   [country_id |-> c, is_pro |-> is_pro, page |-> page,
                    limit |-> limit],
                   get_numbers_for_country(numbers, c, is_pro, page, limit, tie),
                   "none")]
    /\ UNCHANGED <<pro_codes, ad_views, users, numbers, number_requests, now, uuids>>

\* numbers_list_handler: an unknown country is answered at once; otherwise the
\* page is read, then the count, from which total_pages is computed and shown
\* with the page
numbers_list_handler(u, c, page, tie) ==
    /\ tasks[1].pc = "idle"
    /\ tasks' = [tasks EXCEPT ![1] =
          LET args == [user_id |-> u, country_id |-> c, page |-> page]
              listed == get_numbers_for_country(numbers, c, IsPro(u), page,
                                                NUMBERS_PER_PAGE, tie)
              total_count == get_total_numbers_count(numbers, c)
          IN  IF c \notin Countries
              THEN Returned("numbers_list_handler", args, <<>>, "no_country")
              ELSE IF total_count.raised = "KeyError"
              THEN Returned("numbers_list_handler", args, <<>>, "KeyError")
              ELSE IF listed = <<>> /\ page = 1
              THEN Returned("numbers_list_handler", args, <<>>, "no_numbers")
              ELSE Returned("numbers_list_handler", args,
                      [numbers |-> listed,
                       total_pages |-> (total_count.value + NUMBERS_PER_PAGE - 1)
                                         \div NUMBERS_PER_PAGE],
                      "page")]
    /\ UNCHANGED <<pro_codes, ad_views, users, numbers, number_requests, now, uuids>>

\* the tables the listing is asked of: up to MaxCatalog numbers of any
\* country, tier, availability and age; user 1 is PRO, the others are not
CatalogRows ==
    [number : {1}, platform : {"Telegram"},
     country_id : Countries, is_premium : {0, 1}, added_at : {0, 1},
     is_active : {0, 1}, times_used : {0}, last_used : {0},
     last_used_by : {0}]

InitList ==
    /\ numbers \in [1..MaxCatalog -> CatalogRows]
    /\ users = [u \in Users |->
                  IF u = 1
                  THEN [NewUser EXCEPT !.is_pro = 1, !.pro_expiry = {1}]
                  ELSE NewUser]
    /\ number_requests = <<>>
    /\ now = 0
    /\ uuids = 0
    /\ pro_codes = <<>>
    /\ ad_views = <<>>
    /\ tasks = [t \in Tasks |-> IdleTask]

NextList ==
    \/ \E c \in Countries, is_pro \in BOOLEAN, page \in 1..MaxPage,
          limit \in 1..MaxLimit, tie \in {"asc", "desc"} :
            ListCall(c, is_pro, page, limit, tie)
    \/ \E u \in Users, c \in 0..MaxCountries, page \in 1..MaxPage,
          tie \in {"asc", "desc"} :
            numbers_list_handler(u, c, page, tie)

SpecList == InitList /\ [][NextList]_vars

\* ----------------------------------------------------------------- search

\* Text is a sequence of characters.  The characters of a number, and those a
\* user may type in a pattern.
Digits == {"1", "2"}
PatternChars == {"1", "*", "%", "_"}

\* the texts over an alphabet, up to MaxText characters
TextsOver(alphabet) ==
    UNION {[1..k -> alphabet] : k \in 0..MaxText}

\* pattern.replace('*', '%')
ReplaceStar(pattern) ==
    [i \in DOMAIN pattern |-> IF pattern[i] = "*" THEN "%" ELSE pattern[i]]

\* SQLite's text LIKE pattern: % matches any sequence of characters, _ any
\* one character, every other character itself
RECURSIVE Like(_, _)
Like(text, pattern) ==
    IF pattern = <<>> THEN text = <<>>
    ELSE IF Head(pattern) = "%"
    THEN \/ Like(text, Tail(pattern))
         \/ text # <<>> /\ Like(Tail(text), pattern)
    ELSE IF Head(pattern) = "_"
    THEN text # <<>> /\ Like(Tail(text), Tail(pattern))
    ELSE /\ text # <<>>
         /\ Head(text) = Head(pattern)
         /\ Like(Tail(text), Tail(pattern))

\* NumberManager.search_premium_numbers: the ids of the rows returned,
\* ORDER BY added_at DESC
search_premium_numbers(nums, c, pattern, tie) ==
    OrderBy(nums,
            {n \in DOMAIN nums : /\ nums[n].country_id = c
                                 /\ nums[n].is_active = 1
                                 /\ nums[n].is_premium = 1
                                 /\ Like(nums[n].number, ReplaceStar(pattern))},
            tie)

\* search_premium_numbers called with these arguments
SearchCall(c, pattern, tie) ==
    /\ tasks[1].pc = "idle"
    /\ tasks' = [tasks EXCEPT ![1] =
          Returned("search_premium_numbers",
                   [country_id |-> c, pattern |-> pattern],
                   search_premium_numbers(numbers, c, pattern, tie),
                   "none")]
    /\ UNCHANGED <<pro_codes, ad_views, users, numbers, number_requests, now, uuids>>

\* the tables the search is asked of
SearchedRows ==
    [number : TextsOver(Digits) \ {<<>>}, platform : {"Telegram"},
     country_id : Countries, is_premium : {0, 1}, added_at : {0},
     is_active : {0, 1}, times_used : {0}, last_used : {0},
     last_used_by : {0}]

InitSearch ==
    /\ numbers \in [1..MaxSearched -> SearchedRows]
    /\ users = [u \in Users |-> NewUser]
    /\ number_requests = <<>>
    /\ now = 0
    /\ uuids = 0
    /\ pro_codes = <<>>
    /\ ad_views = <<>>
    /\ tasks = [t \in Tasks |-> IdleTask]

NextSearch ==
    \E c \in Countries, pattern \in TextsOver(PatternChars),
       tie \in {"asc", "desc"} :
        SearchCall(c, pattern, tie)

SpecSearch == InitSearch /\ [][NextSearch]_vars

\* ----------------------------------------------------------------- points

MinutesPerDay == 24 * 60

\* datetime.now().strftime("%Y-%m-%d") and strftime("%Y-%m-%d %H:%M:%S"): a
\* text is the sequence of its fields, the day, and the day and the time
strftime_date(t) == <<t \div MinutesPerDay>>
strftime_datetime(t) == <<t \div MinutesPerDay, t % MinutesPerDay>>

\* the amounts a user may type for a transfer
Amounts == {daily_bonus_points, pro_points_cost}

\* UPDATE users SET points = points + ? WHERE id = ?  (the row that
\* update_user_points then adds to points_history is not kept)
update_user_points(us, u, points_change) ==
    [us EXCEPT ![u].points = @ + points_change]

\* a points operation in flight: its arguments, the sender row that
\* transfer_points read first, what its subtract_points call returned (False
\* until it has returned) and, as history, the points its UPDATE has taken
PointsCall(op, pc, u, r, p, sender) ==
    [pc |-> pc, op |-> op,
     args |-> [user_id |-> u, receiver_id |-> r, points |-> p],
     sender |-> sender, success |-> FALSE, deducted |-> 0]

\* a points operation takes the first slot that has run none: MaxTasks of
\* them are looked at per behaviour, in any interleaving
Fresh(t) ==
    /\ tasks[t].pc = "idle"
    /\ \A s \in Tasks : s < t => tasks[s].pc # "idle"

\* claim_daily_bonus: reads the user and compares last_daily_bonus with
\* today's date; equal, it returns 0
claim_daily_bonus(t, u) ==
    /\ Fresh(t)
    /\ LET call == PointsCall("claim_daily_bonus", "B_add", u, 0, 0, NewUser)
           today == strftime_date(now)
       IN  tasks' = [tasks EXCEPT ![t] =
              IF users[u].last_daily_bonus = {today}
              THEN Returned(call.op, call.args, 0, "already_claimed")
              ELSE call]
    /\ UNCHANGED <<pro_codes, ad_views, users, numbers, number_requests, now, uuids>>

\* add_points(user_id, daily_bonus_points)
ClaimAdd(t) ==
    /\ tasks[t].pc = "B_add"
    /\ users' = update_user_points(users, tasks[t].args.user_id,
                                   daily_bonus_points)
    /\ tasks' = [tasks EXCEPT ![t].pc = "B_stamp"]
    /\ UNCHANGED <<pro_codes, ad_views, numbers, number_requests, now, uuids>>

\* UPDATE users SET last_daily_bonus = <now, with its time>; return the bonus
ClaimStamp(t) ==
    /\ tasks[t].pc = "B_stamp"
    /\ users' = [users EXCEPT ![tasks[t].args.user_id].last_daily_bonus =
                                  {strftime_datetime(now)}]
    /\ tasks' = [tasks EXCEPT ![t] =
          Returned(tasks[t].op, tasks[t].args, daily_bonus_points, "claimed")]
    /\ UNCHANGED <<pro_codes, ad_views, numbers, number_requests, now, uuids>>

\* buy_pro_with_points: reads the user; with too few points it returns False,
\* otherwise it calls subtract_points(user_id, pro_points_cost)
buy_pro_with_points(t, u) ==
    /\ Fresh(t)
    /\ LET call == PointsCall("buy_pro_with_points", "S_get", u, 0,
                              pro_points_cost, NewUser)
       IN  tasks' = [tasks EXCEPT ![t] =
              IF users[u].points < pro_points_cost
              THEN Returned(call.op, call.args, FALSE, "insufficient_points")
              ELSE call]
    /\ UNCHANGED <<pro_codes, ad_views, users, numbers, number_requests, now, uuids>>

\* transfer_points: a transfer to oneself is refused at once; otherwise the
\* sender's row is read
transfer_points(t, sender_id, receiver_id, points) ==
    /\ Fresh(t)
    /\ LET call == PointsCall("transfer_points", "T_receiver", sender_id,
                              receiver_id, points, users[sender_id])
       IN  tasks' = [tasks EXCEPT ![t] =
              IF sender_id = receiver_id
              THEN Returned(call.op, call.args, "self_transfer",
                            "self_transfer")
              ELSE call]
    /\ UNCHANGED <<pro_codes, ad_views, users, numbers, number_requests, now, uuids>>

\* transfer_points reads the receiver's row, then checks both rows and the
\* sender's balance as it was read; if all pass it calls subtract_points
TransferReceiver(t) ==
    /\ tasks[t].pc = "T_receiver"
    /\ LET r == tasks[t]
           receiver == users[r.args.receiver_id]
           refused == IF r.sender.banned = 1 THEN "sender_not_found"
                      ELSE IF receiver.banned = 1 THEN "receiver_not_found"
                      ELSE IF r.sender.points < r.args.points
                      THEN "insufficient_points"
                      ELSE "none"
       IN  tasks' = [tasks EXCEPT ![t] =
              IF refused # "none"
              THEN Returned(r.op, r.args, refused, refused)
              ELSE [r EXCEPT !.pc = "S_get"]]
    /\ UNCHANGED <<pro_codes, ad_views, users, numbers, number_requests, now, uuids>>

\* subtract_points reads the user again; with too few points it returns
\* False, on which buy_pro_with_points returns False and transfer_points,
\* which does not look at what subtract_points returned, goes on
SubtractGet(t) ==
    /\ tasks[t].pc = "S_get"
    /\ LET r == tasks[t]
           user == users[r.args.user_id]
       IN  tasks' = [tasks EXCEPT ![t] =
              IF user.points >= r.args.points
              THEN [r EXCEPT !.pc = "S_update"]
              ELSE IF r.op = "transfer_points"
              THEN [r EXCEPT !.pc = "T_add"]
              ELSE Returned(r.op, r.args, FALSE, "insufficient_points")]
    /\ UNCHANGED <<pro_codes, ad_views, users, numbers, number_requests, now, uuids>>

\* subtract_points: update_user_points(user_id, -points), return True
SubtractUpdate(t) ==
    /\ tasks[t].pc = "S_update"
    /\ users' = update_user_points(users, tasks[t].args.user_id,
                                   - tasks[t].args.points)
    /\ tasks' = [tasks EXCEPT ![t].success = TRUE,
                              ![t].deducted = tasks[t].args.points,
                              ![t].pc =
                    IF tasks[t].op = "transfer_points" THEN "T_add"
                    ELSE "P_activate"]
    /\ UNCHANGED <<pro_codes, ad_views, numbers, number_requests, now, uuids>>

\* transfer_points: add_points(receiver_id, points), return "success"
TransferAdd(t) ==
    /\ tasks[t].pc = "T_add"
    /\ users' = update_user_points(users, tasks[t].args.receiver_id,
                                   tasks[t].args.points)
    /\ tasks' = [tasks EXCEPT ![t] =
          Returned(tasks[t].op, tasks[t].args, "success", "success")]
    /\ UNCHANGED <<pro_codes, ad_views, numbers, number_requests, now, uuids>>

\* activate_pro: UPDATE users SET is_pro = 1, pro_expiry = now + duration,
\* the duration being pro_days_duration for buy_pro_with_points, which then
\* returns True, and the code's for use_pro_code, which goes on
activate_pro(t) ==
    /\ tasks[t].pc = "P_activate"
    /\ LET duration_days == IF tasks[t].op = "use_pro_code"
                            THEN tasks[t].duration
                            ELSE pro_days_duration
       IN  users' = [users EXCEPT
                       ![tasks[t].args.user_id].is_pro = 1,
                       ![tasks[t].args.user_id].pro_expiry =
                           {now + duration_days * MinutesPerDay}]
    /\ tasks' = [tasks EXCEPT ![t] =
          IF tasks[t].op = "use_pro_code"
          THEN [tasks[t] EXCEPT !.pc = "U_update"]
          ELSE Returned(tasks[t].op, tasks[t].args, TRUE, "pro_activated")]
    /\ UNCHANGED <<pro_codes, ad_views, numbers, number_requests, now, uuids>>

\* half a day passes
HalfDay ==
    /\ now < MaxHalfDays * (MinutesPerDay \div 2)
    /\ now' = now + MinutesPerDay \div 2
    /\ UNCHANGED <<pro_codes, ad_views, users, numbers, number_requests, uuids, tasks>>

\* the users start with no points or with the price of PRO
InitPoints ==
    /\ numbers = [n \in Numbers |->
                    [number |-> DisplayOf(n).number,
                     platform |-> DisplayOf(n).platform,
                     country_id |-> 1, is_premium |-> 1, added_at |-> 0,
                     is_active |-> 1, times_used |-> 0,
                     last_used |-> 0, last_used_by |-> 0]]
    /\ users \in [Users -> {[NewUser EXCEPT !.points = p] :
                               p \in {0, pro_points_cost}}]
    /\ number_requests = <<>>
    /\ now = 0
    /\ uuids = 0
    /\ pro_codes = <<>>
    /\ ad_views = <<>>
    /\ tasks = [t \in Tasks |-> IdleTask]

NextPoints ==
    \/ \E t \in Tasks, u \in Users : claim_daily_bonus(t, u)
    \/ \E t \in Tasks : ClaimAdd(t)
    \/ \E t \in Tasks : ClaimStamp(t)
    \/ \E t \in Tasks, u \in Users : buy_pro_with_points(t, u)
    \/ \E t \in Tasks, sender_id, receiver_id \in Users, points \in Amounts :
            transfer_points(t, sender_id, receiver_id, points)
    \/ \E t \in Tasks : TransferReceiver(t)
    \/ \E t \in Tasks : SubtractGet(t)
    \/ \E t \in Tasks : SubtractUpdate(t)
    \/ \E t \in Tasks : TransferAdd(t)
    \/ \E t \in Tasks : activate_pro(t)
    \/ HalfDay

SpecPoints == InitPoints /\ [][NextPoints]_vars

\* ------------------------------------------- points: persistence failures

\* update_user_points fails in subtract_points: its UPDATE of users raised, or
\* the UPDATE committed and the INSERT into points_history raised.
\* subtract_points catches the exception and returns False.
SubtractWriteFails(t, committed) ==
    /\ tasks[t].pc = "S_update"
    /\ users' = IF committed
                THEN update_user_points(users, tasks[t].args.user_id,
                                        - tasks[t].args.points)
                ELSE users
    /\ tasks' = [tasks EXCEPT ![t] =
          LET r == [tasks[t] EXCEPT
                      !.deducted = IF committed THEN @ + tasks[t].args.points
                                   ELSE @]
          IN  IF r.op = "transfer_points"
              THEN [r EXCEPT !.pc = "T_add"]
              ELSE Returned(r.op, r.args, FALSE, "error")]
    /\ UNCHANGED <<pro_codes, ad_views, numbers, number_requests, now, uuids>>

\* activate_pro fails: its UPDATE of users raised, or the UPDATE committed and
\* the INSERT into pro_subscriptions (or log_action) raised.  activate_pro
\* catches the exception and returns False, and so does buy_pro_with_points.
ActivateProFails(t, committed) ==
    /\ tasks[t].pc = "P_activate"
    /\ users' = IF committed
                THEN [users EXCEPT
                        ![tasks[t].args.user_id].is_pro = 1,
                        ![tasks[t].args.user_id].pro_expiry =
                            {now + pro_days_duration * MinutesPerDay}]
                ELSE users
    /\ tasks' = [tasks EXCEPT ![t] =
          Returned(tasks[t].op, tasks[t].args, FALSE, "error")]
    /\ UNCHANGED <<pro_codes, ad_views, numbers, number_requests, now, uuids>>

NextPointsFail ==
    \/ \E t \in Tasks, u \in Users : claim_daily_bonus(t, u)
    \/ \E t \in Tasks : ClaimAdd(t)
    \/ \E t \in Tasks : ClaimStamp(t)
    \/ \E t \in Tasks, u \in Users : buy_pro_with_points(t, u)
    \/ \E t \in Tasks, sender_id, receiver_id \in Users, points \in Amounts :
            transfer_points(t, sender_id, receiver_id, points)
    \/ \E t \in Tasks : TransferReceiver(t)
    \/ \E t \in Tasks : SubtractGet(t)
    \/ \E t \in Tasks : SubtractUpdate(t)
    \/ \E t \in Tasks : TransferAdd(t)
    \/ \E t \in Tasks : activate_pro(t)
    \/ HalfDay
    \/ \E t \in Tasks, committed \in BOOLEAN : SubtractWriteFails(t, committed)
    \/ \E t \in Tasks, committed \in BOOLEAN : ActivateProFails(t, committed)

SpecPointsFail == InitPoints /\ [][NextPointsFail]_vars

\* -------------------------------------------------------------- PRO codes

\* the codes the admin has created, and the durations given to them and to
\* extensions
ProCodes == {"PROCODE001"}
CodeDays == {7, pro_days_duration}

\* a row of pro_codes as create_pro_code inserts it
NewProCode(duration_days) ==
    [duration_days |-> duration_days, used_by |-> {}, is_active |-> 1]

\* a PRO operation in flight: its arguments and its locals (the duration
\* read from the code, the new expiry computed by extend_pro_subscription)
ProCall(op, pc, u, code, days, duration, new_expiry) ==
    [pc |-> pc, op |-> op,
     args |-> [user_id |-> u, code |-> code, days |-> days],
     duration |-> duration, new_expiry |-> new_expiry]

\* use_pro_code: SELECT * FROM pro_codes WHERE code = ? AND is_active = 1 AND
\* used_by IS NULL; no row, it returns False; otherwise it calls activate_pro
use_pro_code(t, u, code) ==
    /\ Fresh(t)
    /\ LET found == /\ code \in DOMAIN pro_codes
                    /\ pro_codes[code].is_active = 1
                    /\ pro_codes[code].used_by = {}
           call == ProCall("use_pro_code", "P_activate", u, code, 0,
                           IF found THEN pro_codes[code].duration_days ELSE 0,
                           0)
       IN  tasks' = [tasks EXCEPT ![t] =
              IF found THEN call
              ELSE Returned(call.op, call.args, FALSE, "invalid_code")]
    /\ UNCHANGED <<pro_codes, ad_views, users, numbers, number_requests, now,
                   uuids>>

\* UPDATE pro_codes SET used_by = ?, used_at = ?, is_active = 0 WHERE code = ?
\* and return True
UseCodeUpdate(t) ==
    /\ tasks[t].pc = "U_update"
    /\ pro_codes' = [pro_codes EXCEPT
                        ![tasks[t].args.code].used_by = {tasks[t].args.user_id},
                        ![tasks[t].args.code].is_active = 0]
    /\ tasks' = [tasks EXCEPT ![t] =
          Returned(tasks[t].op, tasks[t].args, TRUE, "pro_activated")]
    /\ UNCHANGED <<ad_views, users, numbers, number_requests, now, uuids>>

\* extend_pro_subscription: reads the user and computes the new expiry from
\* the later of now and the expiry read
extend_pro_subscription(t, u, days) ==
    /\ Fresh(t)
    /\ LET user == users[u]
           current_expiry ==
               IF \E e \in user.pro_expiry : e >= now
               THEN CHOOSE e \in user.pro_expiry : TRUE
               ELSE now
       IN  tasks' = [tasks EXCEPT ![t] =
              ProCall("extend_pro_subscription", "E_update", u, "none", days,
                      0, current_expiry + days * MinutesPerDay)]
    /\ UNCHANGED <<pro_codes, ad_views, users, numbers, number_requests, now,
                   uuids>>

\* UPDATE users SET is_pro = 1, pro_expiry = <new expiry>; return it
ExtendUpdate(t) ==
    /\ tasks[t].pc = "E_update"
    /\ users' = [users EXCEPT
                    ![tasks[t].args.user_id].is_pro = 1,
                    ![tasks[t].args.user_id].pro_expiry =
                        {tasks[t].new_expiry}]
    /\ tasks' = [tasks EXCEPT ![t] =
          Returned(tasks[t].op, tasks[t].args, tasks[t].new_expiry,
                   "extended")]
    /\ UNCHANGED <<pro_codes, ad_views, numbers, number_requests, now, uuids>>

\* a user has the price of PRO or nothing, and is PRO for pro_days_duration
\* from now or not at all; the admin has created one code
InitPro ==
    /\ numbers = [n \in Numbers |->
                    [number |-> DisplayOf(n).number,
                     platform |-> DisplayOf(n).platform,
                     country_id |-> 1, is_premium |-> 1, added_at |-> 0,
                     is_active |-> 1, times_used |-> 0,
                     last_used |-> 0, last_used_by |-> 0]]
    /\ users \in [Users ->
          {[NewUser EXCEPT !.points = p] : p \in {0, pro_points_cost}}
          \cup {[NewUser EXCEPT !.points = p, !.is_pro = 1,
                     !.pro_expiry = {pro_days_duration * MinutesPerDay}] :
                   p \in {0, pro_points_cost}}]
    /\ number_requests = <<>>
    /\ now = 0
    /\ uuids = 0
    /\ pro_codes \in [ProCodes -> {NewProCode(d) : d \in CodeDays}]
    /\ ad_views = <<>>
    /\ tasks = [t \in Tasks |-> IdleTask]

NextPro ==
    \/ \E t \in Tasks, u \in Users, code \in ProCodes : use_pro_code(t, u, code)
    \/ \E t \in Tasks : UseCodeUpdate(t)
    \/ \E t \in Tasks, u \in Users, days \in CodeDays :
            extend_pro_subscription(t, u, days)
    \/ \E t \in Tasks : ExtendUpdate(t)
    \/ \E t \in Tasks, u \in Users : buy_pro_with_points(t, u)
    \/ \E t \in Tasks : SubtractGet(t)
    \/ \E t \in Tasks : SubtractUpdate(t)
    \/ \E t \in Tasks : activate_pro(t)
    \/ HalfDay

SpecPro == InitPro /\ [][NextPro]_vars

\* -------------------------------------------------------------------- ads

\* table ads: the admin has created MaxAds active ads, ad a rewarding a points
ads == [a \in 1..MaxAds |-> [reward_points |-> a, is_active |-> 1]]

\* the ids a confirm callback may carry: those, and one id (0) of no row
AdIds == 0..MaxAds

\* SELECT id FROM ad_views WHERE user_id = ? AND ad_id = ?
SelectView(views, u, a) ==
    {i \in DOMAIN views : views[i].user_id = u /\ views[i].ad_id = a}

\* a mark_ad_viewed_and_reward call in flight: its arguments and the ad row
\* it read
AdCall(pc, u, a, ad) ==
    [pc |-> pc, op |-> "mark_ad_viewed_and_reward",
     args |-> [user_id |-> u, ad_id |-> a], ad |-> ad]

\* mark_ad_viewed_and_reward: get_ad; no ad or an inactive one returns False
mark_ad_viewed_and_reward(t, u, a) ==
    /\ Fresh(t)
    /\ tasks' = [tasks EXCEPT ![t] =
          IF a \in DOMAIN ads /\ ads[a].is_active # 0
          THEN AdCall("A_check", u, a, ads[a])
          ELSE Returned("mark_ad_viewed_and_reward",
                        [user_id |-> u, ad_id |-> a], FALSE, "no_ad")]
    /\ UNCHANGED <<pro_codes, ad_views, users, numbers, number_requests, now,
                   uuids>>

\* the SELECT from ad_views: a row found, it returns False
AdViewCheck(t) ==
    /\ tasks[t].pc = "A_check"
    /\ tasks' = [tasks EXCEPT ![t] =
          IF SelectView(ad_views, tasks[t].args.user_id,
                        tasks[t].args.ad_id) # {}
          THEN Returned(tasks[t].op, tasks[t].args, FALSE, "already_viewed")
          ELSE [tasks[t] EXCEPT !.pc = "A_insert"]]
    /\ UNCHANGED <<pro_codes, ad_views, users, numbers, number_requests, now,
                   uuids>>

\* INSERT INTO ad_views (ad_id, user_id) VALUES (?, ?)
AdViewInsert(t) ==
    /\ tasks[t].pc = "A_insert"
    /\ ad_views' = Append(ad_views, [ad_id |-> tasks[t].args.ad_id,
                                     user_id |-> tasks[t].args.user_id])
    /\ tasks' = [tasks EXCEPT ![t].pc = "A_reward"]
    /\ UNCHANGED <<pro_codes, users, numbers, number_requests, now, uuids>>

\* add_points(user_id, ad['reward_points']); log_action; return True
AdReward(t) ==
    /\ tasks[t].pc = "A_reward"
    /\ users' = update_user_points(users, tasks[t].args.user_id,
                                   tasks[t].ad.reward_points)
    /\ tasks' = [tasks EXCEPT ![t] =
          Returned(tasks[t].op, tasks[t].args, TRUE, "rewarded")]
    /\ UNCHANGED <<pro_codes, ad_views, numbers, number_requests, now, uuids>>

NextAds ==
    \/ \E t \in Tasks, u \in Users, a \in AdIds :
            mark_ad_viewed_and_reward(t, u, a)
    \/ \E t \in Tasks : AdViewCheck(t)
    \/ \E t \in Tasks : AdViewInsert(t)
    \/ \E t \in Tasks : AdReward(t)

SpecAds == Init /\ [][NextAds]_vars

\* ----------------------------------------------------------------- /start

\* the invite parameter of a /start message: none (0), or a user id
InviteParameters == {0} \cup Users

\* a command_start_handler invocation in flight, with its arguments (when it
\* has answered, its result tells what reward_inviter did, if called)
StartCall(pc, u, invited_by) ==
    [pc |-> pc, op |-> "command_start_handler",
     args |-> [user_id |-> u, invited_by |-> invited_by]]

\* command_start_handler: get_user; a user that has a row is not registered
\* again
command_start_handler(t, u, invited_by) ==
    /\ Fresh(t)
    /\ tasks' = [tasks EXCEPT ![t] =
          IF u \in DOMAIN users
          THEN Returned("command_start_handler",
                        [user_id |-> u, invited_by |-> invited_by],
                        "none", "menu")
          ELSE StartCall("R_insert", u, invited_by)]
    /\ UNCHANGED <<pro_codes, ad_views, users, numbers, number_requests, now,
                   uuids>>

\* add_user: INSERT OR IGNORE INTO users; without an invite parameter the
\* handler goes on to the menu
AddUserInsert(t) ==
    /\ tasks[t].pc = "R_insert"
    /\ users' = [u \in DOMAIN users \cup {tasks[t].args.user_id} |->
                    IF u \in DOMAIN users THEN users[u] ELSE NewUser]
    /\ tasks' = [tasks EXCEPT ![t] =
          IF tasks[t].args.invited_by # 0
          THEN [tasks[t] EXCEPT !.pc = "R_invites"]
          ELSE Returned(tasks[t].op, tasks[t].args, "none", "menu")]
    /\ UNCHANGED <<pro_codes, ad_views, numbers, number_requests, now, uuids>>

\* add_user: UPDATE users SET total_invites = total_invites + 1 WHERE id =
\* invited_by (the column is not kept); the handler then calls reward_inviter
AddUserInvites(t) ==
    /\ tasks[t].pc = "R_invites"
    /\ tasks' = [tasks EXCEPT ![t].pc = "R_get"]
    /\ UNCHANGED <<pro_codes, ad_views, users, numbers, number_requests, now,
                   uuids>>

\* reward_inviter: get_user(inviter_id); no row or a banned inviter returns
\* False
RewardInviterGet(t) ==
    /\ tasks[t].pc = "R_get"
    /\ LET inviter_id == tasks[t].args.invited_by
       IN  tasks' = [tasks EXCEPT ![t] =
              IF inviter_id \notin DOMAIN users
                 \/ users[inviter_id].banned = 1
              THEN Returned(tasks[t].op, tasks[t].args, "not rewarded", "menu")
              ELSE [tasks[t] EXCEPT !.pc = "R_add"]]
    /\ UNCHANGED <<pro_codes, ad_views, users, numbers, number_requests, now,
                   uuids>>

\* reward_inviter: add_points(inviter_id, invite_points), return True
RewardInviterAdd(t) ==
    /\ tasks[t].pc = "R_add"
    /\ users' = update_user_points(users, tasks[t].args.invited_by,
                                   invite_points)
    /\ tasks' = [tasks EXCEPT ![t] =
          Returned(tasks[t].op, tasks[t].args, "rewarded", "menu")]
    /\ UNCHANGED <<pro_codes, ad_views, numbers, number_requests, now, uuids>>

\* some of the users have registered already
InitStart ==
    /\ numbers = [n \in Numbers |->
                    [number |-> DisplayOf(n).number,
                     platform |-> DisplayOf(n).platform,
                     country_id |-> 1, is_premium |-> 1, added_at |-> 0,
                     is_active |-> 1, times_used |-> 0,
                     last_used |-> 0, last_used_by |-> 0]]
    /\ \E registered \in SUBSET Users :
          users = [u \in registered |-> NewUser]
    /\ number_requests = <<>>
    /\ now = 0
    /\ uuids = 0
    /\ pro_codes = <<>>
    /\ ad_views = <<>>
    /\ tasks = [t \in Tasks |-> IdleTask]

NextStart ==
    \/ \E t \in Tasks, u \in Users, invited_by \in InviteParameters :
            command_start_handler(t, u, invited_by)
    \/ \E t \in Tasks : AddUserInsert(t)
    \/ \E t \in Tasks : AddUserInvites(t)
    \/ \E t \in Tasks : RewardInviterGet(t)
    \/ \E t \in Tasks : RewardInviterAdd(t)

SpecStart == InitStart /\ [][NextStart]_vars

\* ------------------------------------------------------------------ claims

\* C1: in every reachable state each number has at most one PENDING lease.
C1_AtMostOnePendingPerNumber ==
    \A n \in Numbers : Cardinality(PendingOn(n)) <= 1

\* C2: of two initiate calls on the same number of which one read the number
\* available while the other had read it available and not yet flipped it, at
\* most one returns a lease.
C2_OneRacerWins ==
    \A t1, t2 \in Tasks :
        ( /\ t1 # t2
          /\ tasks[t1].pc = "done" /\ tasks[t1].op = "initiate"
          /\ tasks[t2].pc = "done" /\ tasks[t2].op = "initiate"
          /\ tasks[t1].number_id = tasks[t2].number_id
          /\ t1 \in tasks[t2].overlap )
        => ~(tasks[t1].result = "lease" /\ tasks[t2].result = "lease")

\* an initiate on n that has inserted its lease and not yet flipped the flag
FlipOutstanding(n) ==
    \E t \in Tasks : tasks[t].pc = "I_update" /\ tasks[t].number_id = n

\* C3: a number whose flag says available (is_active = 1) is referenced by no
\* PENDING lease.  The state inside one initiate, between its INSERT and its
\* UPDATE, is not counted.
C3_AvailableHasNoPending ==
    \A n \in Numbers :
        (numbers[n].is_active = 1 /\ ~FlipOutstanding(n)) => PendingOn(n) = {}

\* C4: once a lease on a number has reached SUCCESS and the number is held,
\* no step sets the number's flag back to available.
C4_SuccessStaysHeld ==
    [][\A n \in Numbers :
          (SuccessOn(n) # {} /\ numbers[n].is_active = 0)
          => numbers'[n].is_active = 0]_vars

\* a finalize with SUCCESS on n that has updated the lease and not yet counted
CountOutstanding(n) ==
    \E t \in Tasks : /\ tasks[t].pc = "F_number"
                     /\ tasks[t].number_id = n
                     /\ tasks[t].status = "SUCCESS"

\* C5: times_used of a number equals the number of its SUCCESS leases.  The
\* state inside one finalize, between its two UPDATEs, is not counted.
C5_UsageCountsSuccesses ==
    \A n \in Numbers :
        ~CountOutstanding(n)
        => numbers[n].times_used = Cardinality(SuccessOn(n))

\* C6: a lease's status changes only from PENDING, and only to SUCCESS,
\* EXPIRED or CANCELLED; a lease that is terminal keeps its status and its
\* code in every later step, and no lease is ever deleted.
C6_TerminalStatusPersists ==
    [][\A i \in DOMAIN number_requests :
          /\ i \in DOMAIN number_requests'
          /\ number_requests[i].status \in Terminal
             => number_requests'[i] = number_requests[i]
          /\ number_requests'[i].status # number_requests[i].status
             => /\ number_requests[i].status = "PENDING"
                /\ number_requests'[i].status \in Terminal]_vars

\* C6 witness: a poll read a PENDING lease and got a code, a cancel finalized
\* the lease first, and the poll's finalize(SUCCESS) has run and left the
\* lease CANCELLED with no code.
C6_Witness ==
    \E t \in Tasks :
        /\ tasks[t].pc = "F_number"
        /\ tasks[t].op = "poll"
        /\ tasks[t].status = "SUCCESS"
        /\ tasks[t].updated = {}
        /\ number_requests[tasks[t].request].status = "CANCELLED"
        /\ number_requests[tasks[t].request].code = NULL

\* C7: a poll by a user who has a PENDING lease on the number with
\* expires_at < now goes on to finalize EXPIRED without asking the oracle, its
\* UPDATE records every such lease EXPIRED, it makes the number available, and
\* it returns "EXPIRED".
C7_ExpiredPollReportsExpired ==
    [][\A t \in Tasks, u \in Users, n \in Numbers :
          /\ ( /\ Invoked(t, "poll", u, n)
               /\ \E i \in PendingOf(number_requests, u, n) :
                      number_requests[i].expires_at < now )
             => /\ tasks'[t].pc = "F_request"
                /\ tasks'[t].status = "EXPIRED"
                /\ ~tasks'[t].oracle
          /\ ( /\ Stepped(t, "F_request", "F_number")
               /\ tasks[t].status = "EXPIRED" )
             => \A i \in PendingOf(number_requests,
                                   tasks[t].user_id, tasks[t].number_id) :
                    number_requests'[i].status = "EXPIRED"
          /\ ( /\ Stepped(t, "F_number", "F_log")
               /\ tasks[t].status = "EXPIRED" /\ tasks[t].number_id = n )
             => numbers'[n].is_active = 1
          /\ ( /\ Stepped(t, "F_log", "done")
               /\ tasks[t].status = "EXPIRED" )
             => tasks'[t].result = "EXPIRED"]_vars

\* C8: a cancel by a user with a PENDING lease on the number sets that lease
\* to CANCELLED with no code and leaves the number's row alone; its second
\* statement sets the number's flag to available and leaves times_used alone.
C8_CancelReleases ==
    [][\A t \in Tasks, u \in Users, n \in Numbers :
          /\ ( /\ Invoked(t, "cancel", u, n)
               /\ PendingOf(number_requests, u, n) # {} )
             => /\ \A i \in PendingOf(number_requests, u, n) :
                      /\ number_requests'[i].status = "CANCELLED"
                      /\ number_requests'[i].code = NULL
                /\ numbers' = numbers
          /\ ( /\ Stepped(t, "F_number", "F_log")
               /\ tasks[t].op = "cancel" /\ tasks[t].number_id = n
               /\ tasks[t].updated # {} )
             => /\ numbers'[n].is_active = 1
                /\ numbers'[n].times_used = numbers[n].times_used]_vars

\* C8 witness: a cancel has cancelled a lease of a number that had been used
\* before and has run its UPDATE of numbers: the lease is CANCELLED with no
\* code, the number available, its counter still 1.
C8_Witness ==
    \E t \in Tasks :
        /\ tasks[t].pc = "F_log"
        /\ tasks[t].op = "cancel"
        /\ tasks[t].updated # {}
        /\ \A i \in tasks[t].updated :
              /\ number_requests[i].status = "CANCELLED"
              /\ number_requests[i].code = NULL
        /\ numbers[tasks[t].number_id].is_active = 1
        /\ numbers[tasks[t].number_id].times_used = 1

\* C9: a cancel by a user with no PENDING lease on the number changes no
\* lease and leaves the number's row as it was.
C9_CancelWithoutLeaseChangesNothing ==
    [][\A t \in Tasks, u \in Users, n \in Numbers :
          /\ ( /\ Invoked(t, "cancel", u, n)
               /\ PendingOf(number_requests, u, n) = {} )
             => /\ number_requests' = number_requests
                /\ numbers' = numbers
          /\ ( /\ Stepped(t, "F_number", "F_log")
               /\ tasks[t].op = "cancel"
               /\ tasks[t].updated = {} )
             => /\ number_requests' = number_requests
                /\ numbers' = numbers]_vars

\* C10: an initiate by a user on a number on which another user has a PENDING
\* lease (whose initiate has run its UPDATE of numbers) returns no lease; and
\* when the holder's cancel has run its UPDATE of numbers, the number can be
\* leased.
C10_HandOver ==
    [][\A t \in Tasks, b \in Users, n \in Numbers :
          /\ ( /\ Invoked(t, "initiate", b, n)
               /\ ~FlipOutstanding(n)
               /\ \E i \in PendingOn(n) : number_requests[i].user_id # b )
             => /\ tasks'[t].pc = "done"
                /\ tasks'[t].result = "None"
          /\ ( /\ Stepped(t, "F_number", "F_log")
               /\ tasks[t].op = "cancel" /\ tasks[t].number_id = n
               /\ tasks[t].updated # {} )
             => SelectActiveNumber(n)']_vars

\* C11: an initiate on a number that does not exist or is held (is_active = 0)
\* fails: initialize_number_request returns None, the handler answers that the
\* number is not available, and the step changes no row of number_requests
\* (none is inserted) and no row of numbers (is_active, last_used and
\* last_used_by stay as they were).
C11_UnavailableInitiateChangesNothing ==
    [][\A t \in Tasks, u \in Users, n \in RequestIds :
          ( /\ Invoked(t, "initiate", u, n)
            /\ (n \notin Numbers \/ numbers[n].is_active = 0) )
          => /\ tasks'[t].pc = "done"
             /\ tasks'[t].result = "None"
             /\ tasks'[t].reply = "unavailable"
             /\ number_requests' = number_requests
             /\ numbers' = numbers]_vars

\* an initiate on a number that no row describes has been refused, and so has
\* one on a number that is held under a PENDING lease
C11_Witness ==
    /\ \E t \in Tasks :
          /\ tasks[t].pc = "done" /\ tasks[t].op = "initiate"
          /\ tasks[t].number_id \notin Numbers
          /\ tasks[t].reply = "unavailable"
    /\ \E t \in Tasks :
          /\ tasks[t].pc = "done" /\ tasks[t].op = "initiate"
          /\ tasks[t].number_id \in Numbers
          /\ tasks[t].reply = "unavailable"
          /\ numbers[tasks[t].number_id].is_active = 0
          /\ PendingOn(tasks[t].number_id) # {}

\* the api_request_ids in use: those of the rows and those drawn by initiate
\* calls still running
UsedApiIds ==
    {number_requests[i].api_request_id : i \in DOMAIN number_requests}
    \cup {tasks[t].api_request_id : t \in {s \in Tasks : tasks[s].pc \in
                                              {"I_insert", "I_update", "I_log"}}}

\* C12: an initiate by user u on an available number n draws a fresh
\* api_request_id and the expiry now + request_expiry_minutes (5 minutes);
\* its INSERT appends exactly one row, PENDING, owned by u, for n, with that
\* id and expiry and no code, and changes no other row; its UPDATE sets n held
\* with last_used_by = u and leaves times_used alone; it returns the lease with
\* n's number and platform.  Each of the four steps changes nothing else.
C12_InitiateCreatesLease ==
    [][\A t \in Tasks :
        /\ \A u \in Users, n \in Numbers :
              (Invoked(t, "initiate", u, n) /\ numbers[n].is_active = 1)
              => /\ tasks'[t].pc = "I_insert"
                 /\ tasks'[t].expires_at = now + request_expiry_minutes
                 /\ request_expiry_minutes = 5
                 /\ tasks'[t].api_request_id \notin UsedApiIds
                 /\ number_requests' = number_requests
                 /\ numbers' = numbers
        /\ Stepped(t, "I_insert", "I_update")
              => /\ Len(number_requests') = Len(number_requests) + 1
                 /\ \A i \in DOMAIN number_requests :
                        number_requests'[i] = number_requests[i]
                 /\ LET new == number_requests'[Len(number_requests')]
                    IN  /\ new.status = "PENDING"
                        /\ new.user_id = tasks[t].user_id
                        /\ new.number_id = tasks[t].number_id
                        /\ new.api_request_id = tasks[t].api_request_id
                        /\ new.expires_at = tasks[t].expires_at
                        /\ new.code = NULL
                 /\ numbers' = numbers
        /\ Stepped(t, "I_update", "I_log")
              => /\ \A n \in Numbers :
                        numbers'[n] =
                          IF n = tasks[t].number_id
                          THEN [numbers[n] EXCEPT
                                   !.is_active = 0,
                                   !.last_used_by = tasks[t].user_id,
                                   !.last_used = numbers'[n].last_used]
                          ELSE numbers[n]
                 /\ number_requests' = number_requests
        /\ Stepped(t, "I_log", "done")
              => /\ tasks'[t].result = "lease"
                 /\ LeaseOf(tasks[t]).number = numbers[tasks[t].number_id].number
                 /\ LeaseOf(tasks[t]).platform =
                        numbers[tasks[t].number_id].platform
                 /\ \E i \in DOMAIN number_requests :
                        /\ number_requests[i].api_request_id =
                              LeaseOf(tasks[t]).api_request_id
                        /\ number_requests[i].expires_at =
                              LeaseOf(tasks[t]).expires_at
                        /\ number_requests[i].user_id = tasks[t].user_id
                        /\ number_requests[i].number_id =
                              LeaseOf(tasks[t]).number_id
                 /\ number_requests' = number_requests
                 /\ numbers' = numbers]_vars

\* an initiate has returned its lease: the user has a PENDING row on the
\* number, not yet expired, and the number is held in the user's name with its
\* usage counter still 0
C12_Witness ==
    \E t \in Tasks :
        /\ tasks[t].pc = "done" /\ tasks[t].op = "initiate"
        /\ tasks[t].result = "lease"
        /\ \E i \in PendingOn(tasks[t].number_id) :
              /\ number_requests[i].user_id = tasks[t].user_id
              /\ number_requests[i].expires_at = now + request_expiry_minutes
        /\ numbers[tasks[t].number_id].is_active = 0
        /\ numbers[tasks[t].number_id].last_used_by = tasks[t].user_id
        /\ numbers[tasks[t].number_id].times_used = 0

\* C13: a write that fails inside initiate or finalize leaves no partial
\* state.  When an initiate ends on a failed write, the row it inserted (if it
\* got that far) is not a PENDING lease on a number still available; when a
\* finalize ends on a failed write after its UPDATE of number_requests and
\* before its UPDATE of numbers, the first changed no lease.
C13_NoPartialState ==
    [][\A t \in Tasks :
        /\ ( /\ tasks[t].pc \in {"I_insert", "I_update", "I_log"}
             /\ tasks'[t].pc = "done" /\ tasks'[t].result = "None" )
           => ~\E i \in PendingOn(tasks[t].number_id) :
                  /\ number_requests'[i].api_request_id = tasks[t].api_request_id
                  /\ numbers'[tasks[t].number_id].is_active = 1
        /\ ( /\ tasks[t].pc = "F_number"
             /\ tasks'[t].pc = "done" /\ tasks'[t].result = "raise" )
           => tasks[t].updated = {}]_vars

\* C14: a poll that finds the user's lease not expired and gets no code from
\* the oracle reports "not ready" and changes no state: every row of
\* number_requests (status, code, expires_at) and of numbers (is_active,
\* times_used) is the same after it as before, however often it is repeated.
C14_PendingPollChangesNothing ==
    [][\A t \in Tasks, u \in Users, n \in Numbers :
          ( /\ Invoked(t, "poll", u, n)
            /\ tasks'[t].oracle
            /\ tasks'[t].code = NULL )
          => /\ tasks'[t].pc = "done"
             /\ tasks'[t].result = "None"
             /\ tasks'[t].reply = "not_ready"
             /\ number_requests' = number_requests
             /\ numbers' = numbers]_vars

\* a poll has asked the oracle and answered "not ready"; the user's lease is
\* still PENDING and unexpired, the number still held and never counted
C14_Witness ==
    \E t \in Tasks :
        /\ tasks[t].pc = "done" /\ tasks[t].op = "poll"
        /\ tasks[t].oracle /\ tasks[t].reply = "not_ready"
        /\ \E i \in PendingOn(tasks[t].number_id) :
              /\ number_requests[i].user_id = tasks[t].user_id
              /\ ~(number_requests[i].expires_at < now)
              /\ number_requests[i].code = NULL
        /\ numbers[tasks[t].number_id].is_active = 0
        /\ numbers[tasks[t].number_id].times_used = 0

\* the leases user u ever took on number n, and the last of them
LeasesOf(u, n) ==
    {i \in DOMAIN number_requests : /\ number_requests[i].user_id = u
                                    /\ number_requests[i].number_id = n}

LastLeaseOf(u, n) ==
    CHOOSE i \in LeasesOf(u, n) : \A j \in LeasesOf(u, n) : j <= i

\* C15: a poll by a user whose lease on the number is already SUCCESS or
\* EXPIRED (and who has no PENDING one) returns that outcome, the delivered
\* code or "EXPIRED", and changes no row.
C15_PollAfterTerminalRepeatsOutcome ==
    [][\A t \in Tasks, u \in Users, n \in Numbers :
          ( /\ Invoked(t, "poll", u, n)
            /\ LeasesOf(u, n) # {}
            /\ PendingOf(number_requests, u, n) = {}
            /\ number_requests[LastLeaseOf(u, n)].status
                  \in {"SUCCESS", "EXPIRED"} )
          => /\ tasks'[t].pc = "done"
             /\ tasks'[t].result =
                   IF number_requests[LastLeaseOf(u, n)].status = "SUCCESS"
                   THEN number_requests[LastLeaseOf(u, n)].code
                   ELSE "EXPIRED"
             /\ number_requests' = number_requests
             /\ numbers' = numbers]_vars

\* what a poll hands its caller: the value check_for_code returns and the
\* answer of the handler
OutcomeOf(r) == <<r.result, r.reply>>

\* the Pending outcome: that of a poll whose oracle yields no code
PendingOutcome ==
    OutcomeOf(AfterOracle(1, 1, 1, NULL))

\* C16: a poll by a user who has no PENDING lease on the number ends at once
\* with an outcome other than the Pending one ("no code yet"), so that the
\* caller can tell the two apart.
C16_NoActiveLeaseIsNotPending ==
    [][\A t \in Tasks, u \in Users, n \in Numbers :
          ( /\ Invoked(t, "poll", u, n)
            /\ PendingOf(number_requests, u, n) = {} )
          => /\ tasks'[t].pc = "done"
             /\ OutcomeOf(tasks'[t]) # PendingOutcome]_vars

\* C17: a lease is recorded EXPIRED only when, at the step that records it,
\* the clock is past that lease's own expires_at.
C17_OnlyExpiryDecidesExpired ==
    [][\A i \in DOMAIN number_requests :
          ( /\ number_requests[i].status # "EXPIRED"
            /\ number_requests'[i].status = "EXPIRED" )
          => number_requests[i].expires_at < now]_vars

\* C19: in every reachable state a lease has a code exactly when its status
\* is SUCCESS; PENDING, EXPIRED and CANCELLED leases have none.
C19_CodeIffSuccess ==
    \A i \in DOMAIN number_requests :
        (number_requests[i].code # NULL) <=> (number_requests[i].status = "SUCCESS")

\* one lease was finalized SUCCESS with its code and another EXPIRED or
\* CANCELLED without one
C19_Witness ==
    /\ \E i \in DOMAIN number_requests :
          /\ number_requests[i].status = "SUCCESS"
          /\ number_requests[i].code \in Codes
    /\ \E i \in DOMAIN number_requests :
          /\ number_requests[i].status \in {"EXPIRED", "CANCELLED"}
          /\ number_requests[i].code = NULL

\* this step is a step of task t: its invocation or one of its statements
Acting(t) ==
    tasks'[t] # [tasks[t] EXCEPT !.overlap = tasks'[t].overlap]

\* C20: a step of an initiate, poll or cancel issued by user u changes neither
\* the status nor the code of a lease owned by another user, on any number.
C20_OnlyOwnerChangesLease ==
    [][\A t \in Tasks : \A i \in DOMAIN number_requests :
          ( /\ Acting(t)
            /\ number_requests[i].user_id # tasks'[t].user_id )
          => /\ number_requests'[i].status = number_requests[i].status
             /\ number_requests'[i].code = number_requests[i].code]_vars

\* a cancel has just set its user's PENDING lease on a number CANCELLED while
\* another user's lease on the same number is PENDING still
C20_Witness ==
    \E t \in Tasks :
        /\ tasks[t].op = "cancel" /\ tasks[t].pc = "F_number"
        /\ tasks[t].updated # {}
        /\ \A i \in tasks[t].updated : number_requests[i].status = "CANCELLED"
        /\ \E j \in PendingOn(tasks[t].number_id) :
              number_requests[j].user_id # tasks[t].user_id

\* C21: in every reachable state each (user, number) pair has at most one
\* PENDING lease.
C21_AtMostOnePendingPerUserAndNumber ==
    \A u \in Users, n \in Numbers :
        Cardinality(PendingOf(number_requests, u, n)) <= 1

\* C22: a number held (is_active = 0) under a PENDING lease whose expires_at
\* has passed eventually becomes available again, given that time advances
\* and every running handler is resumed.
C22_ExpiredLeaseReturnsToPool ==
    \A n \in Numbers :
        ( /\ numbers[n].is_active = 0
          /\ \E i \in PendingOn(n) : number_requests[i].expires_at < now )
        ~> (numbers[n].is_active = 1)

\* row a is not after row b in (premium first, most recently added first)
NotAfter(a, b) ==
    \/ numbers[a].is_premium > numbers[b].is_premium
    \/ /\ numbers[a].is_premium = numbers[b].is_premium
       /\ numbers[a].added_at >= numbers[b].added_at

\* the rows a user of that tier may list in country c
Visible(c, is_pro) ==
    {n \in DOMAIN numbers : /\ numbers[n].country_id = c
                            /\ numbers[n].is_active = 1
                            /\ (~is_pro => numbers[n].is_premium = 0)}

\* C23: get_numbers_for_country returns only available numbers of the country
\* asked for, none of them premium for a standard user, premium and standard
\* for a PRO user; no row twice; premium first and then most recently added
\* first; and page p of size n is rows (p-1)*n .. p*n - 1 of such an ordering
\* of all the rows the user may list.
C23_ListingIsTheVisiblePage ==
    \A t \in Tasks :
        (tasks[t].pc = "done" /\ tasks[t].op = "get_numbers_for_country")
        => LET a == tasks[t].args
               q == tasks[t].result
               V == Visible(a.country_id, a.is_pro)
               shown == {q[i] : i \in 1..Len(q)}
               offset == (a.page - 1) * a.limit
               rest == IF Cardinality(V) > offset
                       THEN Cardinality(V) - offset ELSE 0
           IN  /\ shown \subseteq V
               /\ Cardinality(shown) = Len(q)
               /\ \A i, j \in 1..Len(q) : i < j => NotAfter(q[i], q[j])
               /\ Len(q) = IF rest < a.limit THEN rest ELSE a.limit
               /\ Len(q) > 0 =>
                    \E B \in SUBSET (V \ shown) :
                        /\ Cardinality(B) = offset
                        /\ \A b \in B : \A e \in shown : NotAfter(b, e)
                        /\ \A e \in shown :
                              \A c \in V \ (shown \cup B) : NotAfter(e, c)

\* a standard user has been given a second page that is not empty, of a
\* country that has an available premium number as well
C23_Witness ==
    \E t \in Tasks :
        /\ tasks[t].pc = "done" /\ tasks[t].op = "get_numbers_for_country"
        /\ ~tasks[t].args.is_pro
        /\ tasks[t].args.page = 2
        /\ tasks[t].result # <<>>
        /\ \E n \in DOMAIN numbers :
              /\ numbers[n].country_id = tasks[t].args.country_id
              /\ numbers[n].is_active = 1
              /\ numbers[n].is_premium = 1

\* the pattern as the claim reads it: * matches any sequence of characters,
\* every other character only itself
RECURSIVE Glob(_, _)
Glob(text, pattern) ==
    IF pattern = <<>> THEN text = <<>>
    ELSE IF Head(pattern) = "*"
    THEN \/ Glob(text, Tail(pattern))
         \/ text # <<>> /\ Glob(Tail(text), pattern)
    ELSE /\ text # <<>>
         /\ Head(text) = Head(pattern)
         /\ Glob(Tail(text), Tail(pattern))

\* C24: search_premium_numbers returns exactly the available premium numbers
\* of the country whose number matches the pattern, * standing for any
\* sequence of characters and every other character, % and _ included, for
\* itself.
C24_SearchMatchesGlob ==
    \A t \in Tasks :
        (tasks[t].pc = "done" /\ tasks[t].op = "search_premium_numbers")
        => {tasks[t].result[i] : i \in 1..Len(tasks[t].result)} =
             {n \in DOMAIN numbers :
                /\ numbers[n].country_id = tasks[t].args.country_id
                /\ numbers[n].is_active = 1
                /\ numbers[n].is_premium = 1
                /\ Glob(numbers[n].number, tasks[t].args.pattern)}

\* C25: when check_for_code returns a code c, the lease it polled is SUCCESS
\* with stored code c (so that two polls of one lease cannot return two
\* different codes).
C25_ReturnedCodeIsStoredCode ==
    [][\A t \in Tasks :
          ( /\ Stepped(t, "F_log", "done")
            /\ tasks[t].op = "poll"
            /\ tasks[t].status = "SUCCESS" )
          => /\ tasks'[t].result = tasks[t].code
             /\ number_requests'[tasks[t].request].status = "SUCCESS"
             /\ number_requests'[tasks[t].request].code = tasks'[t].result]_vars

\* C26: when a poll delivers a code, number_check_code_handler completes
\* without raising and shows the owner that code.
C26_DeliveredCodeIsShown ==
    [][\A t \in Tasks :
          ( /\ Stepped(t, "F_log", "done")
            /\ tasks[t].op = "poll"
            /\ tasks[t].status = "SUCCESS" )
          => tasks'[t].reply = tasks'[t].result]_vars

\* C27: no lease is ever created on a premium number for a user who is not
\* PRO.
C27_NoPremiumLeaseForStandardUser ==
    [][\A i \in DOMAIN number_requests' :
          ( /\ i \notin DOMAIN number_requests
            /\ numbers[number_requests'[i].number_id].is_premium = 1 )
          => IsPro(number_requests'[i].user_id)]_vars

\* C28: the count that numbers_list_handler turns into total_pages for a
\* standard user is the number of rows that user can list: the handler shows
\* a page (or that there is none), and every page up to the total_pages it
\* shows has a row on it.
C28_EveryShownPageHasRows ==
    \A t \in Tasks :
        ( /\ tasks[t].pc = "done" /\ tasks[t].op = "numbers_list_handler"
          /\ tasks[t].args.country_id \in Countries
          /\ ~IsPro(tasks[t].args.user_id) )
        => /\ tasks[t].reply \in {"page", "no_numbers"}
           /\ tasks[t].reply = "page" =>
                \A p \in 1..tasks[t].result.total_pages :
                    Cardinality(Visible(tasks[t].args.country_id, FALSE))
                        > (p - 1) * NUMBERS_PER_PAGE

\* the user's last daily bonus was claimed on the day it now is
ClaimedToday(u) ==
    \E stamp \in users[u].last_daily_bonus :
        stamp[1] = now \div MinutesPerDay

\* C29: claim_daily_bonus grants at most once per calendar day and user: a
\* claim made on a day on which the user has claimed already returns 0 (and
\* adds nothing).
C29_DailyBonusOncePerDay ==
    [][\A t \in Tasks :
          ( /\ tasks[t].pc = "idle"
            /\ tasks'[t].op = "claim_daily_bonus"
            /\ ClaimedToday(tasks'[t].args.user_id) )
          => /\ tasks'[t].pc = "done"
             /\ tasks'[t].result = 0]_vars

\* C30: no balance is ever negative through subtract_points, transfer_points
\* or buy_pro_with_points, also when two of them run concurrently.
C30_BalanceNeverNegative ==
    \A u \in Users : users[u].points >= 0

\* C31: transfer_points conserves points: when it returns "success", having
\* credited the receiver with the amount, it has debited the sender by the
\* amount (so that the sum of the two balances is as it was), also when the
\* sender's balance changed between its check and its deduction.
C31_TransferConservesPoints ==
    [][\A t \in Tasks :
          ( /\ Stepped(t, "T_add", "done")
            /\ tasks[t].op = "transfer_points" )
          => /\ tasks'[t].result = "success"
             /\ tasks[t].success
             /\ users'[tasks[t].args.receiver_id].points =
                  users[tasks[t].args.receiver_id].points
                    + tasks[t].args.points]_vars

\* C34: buy_pro_with_points is all-or-nothing: when it returns True it has
\* taken the price of PRO from the user and the user is PRO; when it returns
\* False it has taken nothing.
C34_BuyProAllOrNothing ==
    [][\A t \in Tasks :
          ( /\ tasks[t].pc \in {"S_get", "S_update", "P_activate"}
            /\ tasks[t].op = "buy_pro_with_points"
            /\ tasks'[t].pc = "done" )
          => LET taken == tasks[t].deducted
                            + (users[tasks[t].args.user_id].points
                                 - users'[tasks[t].args.user_id].points)
             IN  IF tasks'[t].result
                 THEN /\ taken = pro_points_cost
                      /\ users'[tasks[t].args.user_id].is_pro = 1
                 ELSE taken = 0]_vars

\* the use_pro_code calls that have returned True for the code
Redeemed(code) ==
    {t \in Tasks : /\ tasks[t].pc = "done"
                   /\ tasks[t].op = "use_pro_code"
                   /\ tasks[t].args.code = code
                   /\ tasks[t].result = TRUE}

\* C32: a PRO code is single-use: over any interleaving of use_pro_code
\* calls at most one call for a given code returns True; once one has, the
\* code is inactive and records the user of that call.
C32_ProCodeSingleUse ==
    \A code \in ProCodes :
        /\ Cardinality(Redeemed(code)) <= 1
        /\ \A t \in Redeemed(code) :
              /\ pro_codes[code].is_active = 0
              /\ pro_codes[code].used_by = {tasks[t].args.user_id}

\* C35: activating or extending PRO never shortens a subscription: a step
\* that writes the pro_expiry of a user whose expiry is in the future writes
\* an expiry that is not earlier.
C35_ProNeverShortened ==
    [][\A u \in Users :
          \A e \in users[u].pro_expiry :
              (e > now /\ users'[u].pro_expiry # users[u].pro_expiry)
              => \A f \in users'[u].pro_expiry : f >= e]_vars

\* the mark_ad_viewed_and_reward calls of user u for ad a that credited
Rewarded(u, a) ==
    {t \in Tasks : /\ tasks[t].pc = "done"
                   /\ tasks[t].op = "mark_ad_viewed_and_reward"
                   /\ tasks[t].args = [user_id |-> u, ad_id |-> a]
                   /\ tasks[t].result = TRUE}

\* C33: a user is rewarded at most once per ad: for every user and ad at most
\* one ad_views row exists and at most one mark_ad_viewed_and_reward call
\* credits points, also when two calls run concurrently.
C33_OneRewardPerUserAndAd ==
    \A u \in Users, a \in 1..MaxAds :
        /\ Cardinality(SelectView(ad_views, u, a)) <= 1
        /\ Cardinality(Rewarded(u, a)) <= 1

\* the /start invocations of user u that credited invite points
InviteRewards(u) ==
    {t \in Tasks : /\ tasks[t].pc = "done"
                   /\ tasks[t].op = "command_start_handler"
                   /\ tasks[t].args.user_id = u
                   /\ tasks[t].result = "rewarded"}

\* C36: no user receives invite points for their own registration, and each
\* newly registered user causes at most one invite reward, also when two
\* /start requests of that user are handled concurrently.
C36_ReferralRewards ==
    \A u \in Users :
        /\ Cardinality(InviteRewards(u)) <= 1
        /\ \A t \in InviteRewards(u) : tasks[t].args.invited_by # u

====
